---- MODULE Spec2Model ----
(***************************************************************************)
(* A model of statsmodels/survey/summary_stats.py: the SurveyDesign        *)
(* constructor, its replicate-weight generators, and the Mean / Total /    *)
(* Quantile statistic objects.                                             *)
(*                                                                         *)
(* Arrays are functions on 0..n-1, as numpy indexes them.  Floating point  *)
(* numbers are exact fractions <<num, den>> with den >= 0; den = 0 stands  *)
(* for the IEEE special values numpy produces on a division by zero        *)
(* (<<1,0>> = inf, <<-1,0>> = -inf, <<0,0>> = nan).  A Python exception is *)
(* an err field other than "none".  Weight and data arrays are taken as    *)
(* float arrays, and float arithmetic as exact.                            *)
(***************************************************************************)
EXTENDS Integers, Sequences, FiniteSets, TLC

\* ------------------------------------------------------------ bounds
\* Longest strata / cluster / weights array of a constructor call.
MaxN == 3
\* Longest array of a design used for replicate weights and statistics.
MaxObs == 4
\* Largest bsn of a mean bootstrap call.
MaxBsn == 2
\* Longest array of a design a statistic object is built on.
MaxStatObs == 3
\* Most replicates of a bootstrap estimation.
MaxReplicates == 2
\* Longest array of a design that is used any number of times.
MaxLifeObs == 2
\* Longest column the weighted quantile function is applied to.
MaxQuantObs == 4

\* ------------------------------------------------------ float arithmetic
Abs(x) == IF x < 0 THEN -x ELSE x

Sign(x) == IF x < 0 THEN -1 ELSE IF x = 0 THEN 0 ELSE 1

RECURSIVE GCD(_, _)
GCD(a, b) == IF b = 0 THEN a ELSE GCD(b, a % b)

\* The float with numerator n and denominator d, in lowest terms.
Norm(n, d) ==
    IF d = 0 THEN <<Sign(n), 0>>
    ELSE LET g == GCD(Abs(n), Abs(d))
             s == IF d < 0 THEN -1 ELSE 1
         IN  <<(s * n) \div g, (s * d) \div g>>

\* float(k) of an integer k.
F(k) == <<k, 1>>

IsNan(x) == x = <<0, 0>>

IsFinite(x) == x[2] # 0

\* The product of x and y, g and h being common factors of x[1], y[2]
\* and of y[1], x[2] that are cancelled first.
FMulOver(x, y, g, h) ==
    Norm((x[1] \div g) * (y[1] \div h), (x[2] \div h) * (y[2] \div g))

FMul(x, y) ==
    IF x[2] = 0 \/ y[2] = 0 THEN Norm(x[1] * y[1], 0)
    ELSE FMulOver(x, y, GCD(Abs(x[1]), y[2]), GCD(Abs(y[1]), x[2]))

\* 1 / y
FInv(y) == IF y[1] < 0 THEN <<-y[2], -y[1]>> ELSE <<y[2], y[1]>>

FDiv(x, y) == FMul(x, FInv(y))

\* The sum of two finite floats over the least common denominator, g
\* being the greatest common divisor of the two denominators.
FAddOver(x, y, g) ==
    Norm(x[1] * (y[2] \div g) + y[1] * (x[2] \div g), (x[2] \div g) * y[2])

FAdd(x, y) ==
    IF x[2] = 0 /\ y[2] = 0 THEN (IF x = y THEN x ELSE <<0, 0>>)
    ELSE IF x[2] = 0 THEN x
    ELSE IF y[2] = 0 THEN y
    ELSE FAddOver(x, y, GCD(x[2], y[2]))

FSub(x, y) == FAdd(x, <<-y[1], y[2]>>)

\* x < y on floats; any comparison with nan is false.
FLess(x, y) ==
    /\ ~IsNan(x)
    /\ ~IsNan(y)
    /\ IF x[2] = 0 /\ y[2] = 0 THEN x[1] < y[1]
       ELSE IF x[2] = 0 THEN x[1] < 0
       ELSE IF y[2] = 0 THEN y[1] > 0
       ELSE x[1] * y[2] < y[1] * x[2]

\* ------------------------------------------------------- numpy helpers
Range(a) == {a[i] : i \in DOMAIN a}

ALen(a) == Cardinality(DOMAIN a)

EmptyArr == [i \in {} |-> 0]

SetMax(S) == CHOOSE x \in S : \A y \in S : y <= x

SetMin(S) == CHOOSE x \in S : \A y \in S : x <= y

\* The elements of a set of integers as an ascending array.
SortedArray(S) ==
    [k \in 0..(Cardinality(S) - 1) |->
        CHOOSE v \in S : Cardinality({u \in S : u < v}) = k]

\* np.unique(x, return_inverse=True)[1]
UniqueInverse(x) ==
    [i \in DOMAIN x |-> Cardinality({v \in Range(x) : v < x[i]})]

\* np.unique(x, return_index=True)[1]: where each distinct value, taken in
\* ascending order, first occurs.
UniqueIndex(x) ==
    LET vals == SortedArray(Range(x))
    IN  [k \in DOMAIN vals |-> SetMin({i \in DOMAIN x : x[i] = vals[k]})]

\* np.bincount(a, minlength=m) of an array of non-negative integers.
Bincount(a, m) ==
    LET top == IF DOMAIN a = {} THEN 0 ELSE SetMax(Range(a)) + 1
        len == IF top > m THEN top ELSE m
    IN  [k \in 0..(len - 1) |-> Cardinality({i \in DOMAIN a : a[i] = k})]

\* a[idx] for an index array idx (every index inside a).
Take(a, idx) == [k \in DOMAIN idx |-> a[idx[k]]]

RECURSIVE SumTo(_, _)
SumTo(a, n) == IF n = 0 THEN 0 ELSE a[n - 1] + SumTo(a, n - 1)

\* np.sum of an integer array.
NpSum(a) == SumTo(a, ALen(a))

\* np.ones(n), np.zeros(n)
Ones(n) == [i \in 0..(n - 1) |-> 1]

Zeros(n) == [i \in 0..(n - 1) |-> F(0)]

\* An optional argument: None, or an array.
None == [given |-> FALSE, val |-> EmptyArr]

Some(a) == [given |-> TRUE, val |-> a]

\* An array of integers as an array of floats.
AsFloats(a) == [i \in DOMAIN a |-> F(a[i])]

\* ------------------------------------------------------- SurveyDesign
NoErr == "none"

ErrMethod == "ValueError: Method not supported"

ErrRepWeights == "ValueError: If providing rep_weights, do not provide cluster or strata"

ErrAllNone == "ValueError: At least one of strata, cluster, rep_weights, and weights musts not be None"

ErrLengths == "ValueError: lengths of strata, cluster, and weights are not compatible"

ErrEmptyMax == "ValueError: max() arg is an empty sequence"

ErrIndex == "IndexError: index out of bounds"

CovMethods == {"boot", "mean_boot", "jack"}

\* The fields of an object whose constructor raised err: Python yields no
\* object, so every field is empty.
BlankDesign(err) ==
    [ok |-> FALSE, err |-> err, path |-> "none", cov_method |-> "",
     rep_weights |-> None, weights |-> EmptyArr, fpc |-> EmptyArr,
     strat |-> EmptyArr, nstrat |-> 0, sclust |-> EmptyArr,
     clust_per_strat |-> EmptyArr, strat_for_clust |-> EmptyArr,
     nclust |-> 0, ii |-> EmptyArr]

\* SurveyDesign._check_args: the error it raises, else the four arrays.
CheckArgs(strata, cluster, weights, fpc) ==
    LET given == {x \in {strata, cluster, weights} : x.given}
        v == {ALen(x.val) : x \in given}
        n == CHOOSE k \in v : TRUE
    IN  IF given = {} THEN [err |-> ErrAllNone]
        ELSE IF Cardinality(v) # 1 THEN [err |-> ErrLengths]
        ELSE [err |-> NoErr,
              strata |-> IF strata.given THEN strata.val ELSE Ones(n),
              cluster |-> IF cluster.given THEN cluster.val ELSE Ones(n),
              weights |-> IF weights.given THEN AsFloats(weights.val)
                          ELSE AsFloats(Ones(n)),
              fpc |-> IF fpc.given THEN fpc.val ELSE Zeros(n)]

\* A variant that takes the largest stratum id for the number of strata.
NStratMaxId(strat) == SetMax(Range(strat))

\* self.nstrat = max(self.strat) + 1
NStrat(strat) == SetMax(Range(strat)) + 1

\* A variant whose multiplier is the largest cluster id, not one more.
NestMMaxId(clust) == SetMax(Range(clust))

\* The nest branch: sclust = clust + m*strat with m = max(clust) + 1,
\* relabelled by np.unique; otherwise clust itself.
NestM(clust) == SetMax(Range(clust)) + 1

SClust(clust, strat, nest) ==
    IF nest
    THEN UniqueInverse([i \in DOMAIN clust |-> clust[i] + NestM(clust) * strat[i]])
    ELSE clust

\* self.ii: for each stratum the indices of its clusters.
StratumClusters(strat_for_clust, nstrat) ==
    [s \in 0..(nstrat - 1) |->
        SortedArray({c \in DOMAIN strat_for_clust : strat_for_clust[c] = s})]

\* SurveyDesign.__init__ past _check_args (lines 85-118).
BuildDesign(a, cov_method, nest) ==
    LET strat == UniqueInverse(a.strata)
        clust == UniqueInverse(a.cluster)
        nstrat == NStrat(strat)
        sclust == SClust(clust, strat, nest)
        ii == UniqueIndex(sclust)
        clust_per_strat == Bincount(Take(strat, ii), 0)
        strat_for_clust == Take(strat, ii)
    IN  IF DOMAIN strat = {} THEN BlankDesign(ErrEmptyMax)
        ELSE IF \E k \in DOMAIN ii : ii[k] \notin DOMAIN a.fpc
        THEN BlankDesign(ErrIndex)
        ELSE [ok |-> TRUE, err |-> NoErr, path |-> "strata",
              cov_method |-> cov_method, rep_weights |-> None,
              weights |-> a.weights, fpc |-> Take(a.fpc, ii),
              strat |-> strat, nstrat |-> nstrat, sclust |-> sclust,
              clust_per_strat |-> clust_per_strat,
              strat_for_clust |-> strat_for_clust,
              nclust |-> NpSum(clust_per_strat),
              ii |-> StratumClusters(strat_for_clust, nstrat)]

\* SurveyDesign.__init__ on the rep_weights path (lines 72-80): only
\* cov_method, rep_weights and weights are set.
RepDesign(p) ==
    [BlankDesign(NoErr) EXCEPT
        !.ok = TRUE, !.path = "rep", !.cov_method = p.cov_method,
        !.rep_weights = p.rep_weights,
        !.weights = IF p.weights.given THEN AsFloats(p.weights.val)
                    ELSE AsFloats(Ones(ALen(p.rep_weights.val)))]

\* A variant that lets replicate weights come with strata or cluster.
SurveyDesignInitLax(p) ==
    IF p.cov_method \notin CovMethods THEN BlankDesign(ErrMethod)
    ELSE IF p.rep_weights.given THEN RepDesign(p)
    ELSE BlankDesign(ErrAllNone)

\* SurveyDesign.__init__(strata, cluster, weights, rep_weights, fpc,
\* cov_method, nest), the arguments as the record p.
SurveyDesignInit(p) ==
    IF p.cov_method \notin CovMethods THEN BlankDesign(ErrMethod)
    ELSE IF p.rep_weights.given
    THEN (IF p.strata.given \/ p.cluster.given THEN BlankDesign(ErrRepWeights)
          ELSE RepDesign(p))
    ELSE LET a == CheckArgs(p.strata, p.cluster, p.weights, p.fpc)
         IN  IF a.err # NoErr THEN BlankDesign(a.err)
             ELSE BuildDesign(a, p.cov_method, p.nest)

\* ------------------------------------------------ replicate weights
ErrChoice == "ValueError: a must be non-empty"

ErrBroadcast == "ValueError: operands could not be broadcast together"

ErrNoDesignAttr == "AttributeError: 'SurveyDesign' object has no attribute 'design'"

\* w[mask] *= f
ScaleWhere(w, mask, f) ==
    [i \in DOMAIN w |-> IF i \in mask THEN FMul(w[i], f) ELSE w[i]]

\* A variant that scales by (nh - 1) / nh.
JackScaleInverted(nh) == FDiv(F(nh - 1), F(nh))

\* nh / float(nh - 1)
JackScale(nh) == FDiv(F(nh), F(nh - 1))

\* SurveyDesign._jackknife_rep_weights(c)
JackknifeRepWeights(d, c) ==
    IF c \notin DOMAIN d.strat_for_clust THEN [err |-> ErrIndex, w |-> EmptyArr]
    ELSE
    LET s == d.strat_for_clust[c]
        nh == d.clust_per_strat[s]
        w1 == ScaleWhere(d.weights, {i \in DOMAIN d.strat : d.strat[i] = s},
                         JackScale(nh))
    IN  [err |-> NoErr,
         w |-> [i \in DOMAIN w1 |-> IF d.sclust[i] = c THEN F(0) ELSE w1[i]]]

\* float(nh - 1) / nh
BootScale(nh) == FDiv(F(nh - 1), F(nh))

\* A variant that draws nh clusters.
BootSizeAll(nh) == nh

\* size=(self.clust_per_strat[s]-1) of the np.random.choice call
BootSize(nh) == nh - 1

\* What np.random.choice(self.ii[s], size=nh-1) can return: any array of
\* nh-1 entries of ii[s].
ChoiceOutcomes(pool, size) == [0..(size - 1) -> Range(pool)]

\* The outcomes of the draws of one _bootstrap_weights call: for each
\* stratum that resamples, one outcome of its np.random.choice.
StratumDraws(d, s) ==
    IF s \in DOMAIN d.clust_per_strat /\ d.clust_per_strat[s] >= 2
    THEN ChoiceOutcomes(d.ii[s], BootSize(d.clust_per_strat[s]))
    ELSE {EmptyArr}

RECURSIVE DrawsUpTo(_, _)
DrawsUpTo(d, s) ==
    IF s = 0 THEN {EmptyArr}
    ELSE {[t \in 0..(s - 1) |-> IF t = s - 1 THEN x ELSE f[t]] :
            f \in DrawsUpTo(d, s - 1), x \in StratumDraws(d, s - 1)}

BootDraws(d) == DrawsUpTo(d, d.nstrat)

\* clust_count += np.bincount(ii_resample, minlength=max(self.sclust)+1)
AddCounts(count, drawn, d) ==
    LET b == Bincount(drawn, SetMax(Range(d.sclust)) + 1)
    IN  IF DOMAIN b = DOMAIN count
        THEN [err |-> NoErr, count |-> [k \in DOMAIN count |-> count[k] + b[k]]]
        ELSE [err |-> ErrBroadcast, count |-> count]

\* One pass of the loop of _bootstrap_weights: stratum t, after the passes
\* that left prev, drawn being what np.random.choice returns.
BootStep(prev, d, drawn, t) ==
    IF prev.err # NoErr THEN prev
    ELSE IF t \notin DOMAIN d.clust_per_strat THEN [prev EXCEPT !.err = ErrIndex]
    ELSE IF d.clust_per_strat[t] = 1
    THEN [prev EXCEPT !.w = ScaleWhere(prev.w, {i \in DOMAIN d.strat : d.strat[i] = t},
                                       BootScale(1))]
    ELSE IF d.clust_per_strat[t] = 0
    THEN [prev EXCEPT !.w = ScaleWhere(prev.w, {i \in DOMAIN d.strat : d.strat[i] = t},
                                       BootScale(0)),
                      !.err = ErrChoice]
    ELSE [err |-> AddCounts(prev.count, drawn, d).err,
          w |-> ScaleWhere(prev.w, {i \in DOMAIN d.strat : d.strat[i] = t},
                           BootScale(d.clust_per_strat[t])),
          count |-> AddCounts(prev.count, drawn, d).count]

\* The loop of _bootstrap_weights over the strata 0..s-1, draws[s] being
\* what np.random.choice returns in stratum s.
RECURSIVE BootLoop(_, _, _)
BootLoop(d, draws, s) ==
    IF s = 0
    THEN [err |-> NoErr, w |-> d.weights, count |-> [k \in 0..(d.nclust - 1) |-> 0]]
    ELSE BootStep(BootLoop(d, draws, s - 1), d, draws[s - 1], s - 1)

\* w *= clust_count[self.sclust], the last statement of _bootstrap_weights.
BootFinish(r, d) ==
    IF r.err # NoErr THEN [err |-> r.err, w |-> EmptyArr, count |-> r.count]
    ELSE [err |-> NoErr, count |-> r.count,
          w |-> [i \in DOMAIN r.w |-> FMul(r.w[i], F(r.count[d.sclust[i]]))]]

\* SurveyDesign._bootstrap_weights() when its draws come out as draws.
BootstrapWeights(d, draws) == BootFinish(BootLoop(d, draws, d.nstrat), d)

\* SurveyDesign._mean_bootstrap_weight(bsn): its first statement reads
\* self.design.nclust, and a SurveyDesign has no attribute design.
MeanBootstrapWeight(d, bsn) == [err |-> ErrNoDesignAttr, w |-> EmptyArr]

\* self.rep_weights[:, c]
RepColumn(m, c) ==
    IF \E i \in DOMAIN m : c \notin DOMAIN m[i] THEN [err |-> ErrIndex, w |-> EmptyArr]
    ELSE [err |-> NoErr, w |-> [i \in DOMAIN m |-> m[i][c]]]

\* SurveyDesign.get_rep_weights(c, bsn), draws being the outcome of the
\* random draws a bootstrap makes.
GetRepWeights(d, c, bsn, draws) ==
    IF d.rep_weights.given THEN RepColumn(d.rep_weights.val, c)
    ELSE IF d.cov_method = "jack" THEN JackknifeRepWeights(d, c)
    ELSE IF d.cov_method = "boot" THEN BootstrapWeights(d, draws)
    ELSE MeanBootstrapWeight(d, bsn)

\* ---- the arrays a get_rep_weights call works on: the design's weights
\* ---- (self), and the array w it builds and returns; shared says that w
\* ---- is the design's own array, so that a write to w is a write to it.
\* A variant without the copy: w = self.weights.
WeightsAlias(d) == [self |-> d.weights, w |-> d.weights, shared |-> TRUE]

\* w = self.weights.copy()
WeightsCopy(d) == [self |-> d.weights, w |-> d.weights, shared |-> FALSE]

\* The in-place writes to w (w[mask] *= f, w[mask] = 0, w *= counts) that
\* leave it holding neww.
WriteW(h, neww) ==
    IF h.shared THEN [h EXCEPT !.w = neww, !.self = neww] ELSE [h EXCEPT !.w = neww]

\* The arrays after a generator that returned r; one that raised has
\* written to nothing but w.
GeneratorArrays(h, r) == IF r.err = NoErr THEN WriteW(h, r.w) ELSE h

\* The design after get_rep_weights(c, bsn): supplied replicate weights
\* are returned as a view (line 205) that nothing writes to,
\* _mean_bootstrap_weight raises before it has a w, and the other two
\* generators write to w only.
DesignAfterRep(d, c, bsn, draws) ==
    IF d.rep_weights.given \/ d.cov_method = "mean_boot" THEN d
    ELSE [d EXCEPT !.weights =
             GeneratorArrays(WeightsCopy(d), GetRepWeights(d, c, bsn, draws)).self]

\* ------------------------------------------------- statistic objects
ErrQuantile == "ValueError: quantile[s] should be within [0, 1]"

ErrMethodCompare == "TypeError: '>' not supported between instances of 'builtin_function_or_method' and 'int'"

RECURSIVE FSumTo(_, _)
FSumTo(a, n) == IF n = 0 THEN F(0) ELSE FAdd(FSumTo(a, n - 1), a[n - 1])

\* np.sum of a float array.
FSum(a) == FSumTo(a, ALen(a))

\* The columns of an n x p matrix with at least one row.
Cols(data) == IF DOMAIN data = {} THEN {} ELSE DOMAIN data[0]

\* np.dot(weights, data): one value per column.
Dot(w, data) ==
    [j \in Cols(data) |-> FSum([i \in DOMAIN w |-> FMul(w[i], F(data[i][j]))])]

\* SurveyMean._stat
DivideAll(total, sw) == [j \in DOMAIN total |-> FDiv(total[j], sw)]

MeanStat(w, data) == DivideAll(Dot(w, data), FSum(w))

\* SurveyTotal._stat
TotalStat(w, data) == Dot(w, data)

\* self._stat(weights) of a Mean or a Total object.
Stat(kind, w, data) == IF kind = "Mean" THEN MeanStat(w, data) ELSE TotalStat(w, data)

\* jdata.mean(0) over the rows named by the index array rows.
RowMean(jdata, rows, cols) ==
    [j \in cols |-> FDiv(FSum([k \in DOMAIN rows |-> jdata[rows[k]][j]]),
                         F(ALen(rows)))]

\* jdata[rows, :] -= v
SubRows(jdata, rows, v) ==
    [c \in DOMAIN jdata |->
        IF c \in rows THEN [j \in DOMAIN v |-> FSub(jdata[c][j], v[j])]
        ELSE jdata[c]]

\* np.dot(jdata.T, jdata) after each row c was scaled by a factor whose
\* square is sq[c].
ScaledGram(jdata, sq, cols) ==
    [j \in cols |-> [k \in cols |->
        FSum([c \in DOMAIN jdata |->
                 FMul(sq[c], FMul(jdata[c][j], jdata[c][k]))])]]

\* np.sqrt(x), kept as the value it is the root of.
Sqrt(x) == [sqrt_of |-> x]

\* self.stderr = np.sqrt(np.diag(self.vcov))
StdErr(vcov) == [j \in DOMAIN vcov |-> Sqrt(vcov[j][j])]

StatFailure(err) ==
    [err |-> err, est |-> EmptyArr, vcov |-> EmptyArr, stderr |-> EmptyArr]

\* The statistic under one replicate weight vector r, or the error that
\* get_rep_weights raised.
RepStat(kind, r, data) ==
    [err |-> r.err, val |-> IF r.err = NoErr THEN Stat(kind, r.w, data) ELSE EmptyArr]

\* The error of the first replicate that raised one.
FirstError(reps) ==
    IF \A c \in DOMAIN reps : reps[c].err = NoErr THEN NoErr
    ELSE reps[SetMin({c \in DOMAIN reps : reps[c].err # NoErr})].err

\* What the estimation returns: it raised err, or est, vcov and stderr.
StatResult(err, est, vcov) ==
    IF err # NoErr THEN StatFailure(err)
    ELSE [err |-> NoErr, est |-> est, vcov |-> vcov, stderr |-> StdErr(vcov)]

\* The centering of the strata path of _jackknife: for s in range(nstrat),
\* the rows ii[s] lose their own mean; strata 0..s-1 done.
CenterStratum(jdata, rows, cols) ==
    SubRows(jdata, Range(rows), RowMean(jdata, rows, cols))

RECURSIVE CenterStrata(_, _, _, _)
CenterStrata(jdata, d, cols, s) ==
    IF s = 0 THEN jdata
    ELSE CenterStratum(CenterStrata(jdata, d, cols, s - 1), d.ii[s - 1], cols)

\* jdata -= jdata.mean(0)
CenterAll(jdata, cols) ==
    SubRows(jdata, DOMAIN jdata,
            RowMean(jdata, [c \in DOMAIN jdata |-> c], cols))

\* A variant that centres by the mean of all the rows.
JackCentreGlobal(jdata, est, d, cols, mse) ==
    IF mse THEN SubRows(jdata, DOMAIN jdata, est) ELSE CenterAll(jdata, cols)

\* The centering of _jackknife (lines 395-405).
JackCentre(jdata, est, d, cols, mse) ==
    IF mse THEN SubRows(jdata, DOMAIN jdata, est)
    ELSE IF ~d.rep_weights.given THEN CenterStrata(jdata, d, cols, d.nstrat)
    ELSE CenterAll(jdata, cols)

\* The squares of the factors the rows of jdata are scaled by (lines
\* 408-418): fh * mh = sqrt(1 - fpc) * sqrt((nh - 1) / nh) per cluster on
\* the strata path, sqrt((R - 1) / R) for R supplied replicates.
JackScaleSq(d, k) ==
    [c \in 0..(k - 1) |->
        IF ~d.rep_weights.given
        THEN FMul(FSub(F(1), d.fpc[c]),
                  FDiv(F(d.clust_per_strat[d.strat_for_clust[c]] - 1),
                       F(d.clust_per_strat[d.strat_for_clust[c]])))
        ELSE FDiv(F(k - 1), F(k))]

\* k of _jackknife: nclust, or the number of supplied replicates when the
\* design has no nclust.
JackK(d) == IF d.path = "strata" THEN d.nclust ELSE ALen(d.rep_weights.val[0])

\* _jackknife from the point estimate est and the replicate statistics
\* reps on.  (The pseudo-values of line 410 are computed and dropped.)
JackknifeOf(d, cols, mse, est, reps) ==
    StatResult(FirstError(reps), est,
               ScaledGram(JackCentre([c \in DOMAIN reps |-> reps[c].val], est, d,
                                     cols, mse),
                          JackScaleSq(d, ALen(reps)), cols))

\* SurveyStat._jackknife of a Mean or Total object.
Jackknife(d, kind, data, mse) ==
    JackknifeOf(d, Cols(data), mse, Stat(kind, d.weights, data),
                [c \in 0..(JackK(d) - 1) |->
                    RepStat(kind, GetRepWeights(d, c, 0, EmptyArr), data)])

\* The centering of _bootstrap (lines 350-354).
BootCentre(jdata, est, cols, mse) ==
    IF mse THEN SubRows(jdata, DOMAIN jdata, est) ELSE CenterAll(jdata, cols)

\* _bootstrap from the point estimate est and the replicate statistics
\* reps on: vcov = np.dot(jdata.T, jdata) / replicates.
BootstrapOf(cols, mse, est, reps) ==
    StatResult(FirstError(reps), est,
               ScaledGram(BootCentre([c \in DOMAIN reps |-> reps[c].val], est, cols,
                                     mse),
                          [c \in DOMAIN reps |-> FDiv(F(1), F(ALen(reps)))], cols))

\* SurveyStat._bootstrap(replicates, bsn) of a Mean or Total object,
\* draws[i] being the outcome of the random draws of replicate i.
Bootstrap(d, kind, data, mse, replicates, bsn, draws) ==
    BootstrapOf(Cols(data), mse, Stat(kind, d.weights, data),
                [i \in 0..(replicates - 1) |->
                    RepStat(kind, GetRepWeights(d, i, bsn, draws[i]), data)])

\* SurveyMean.__init__ and SurveyTotal.__init__ (kind names the class).
StatInit(d, kind, data, mse, replicates, bsn, draws) ==
    IF d.cov_method = "jack" THEN Jackknife(d, kind, data, mse)
    ELSE Bootstrap(d, kind, data, mse, replicates, bsn, draws)

\* The draws of replicate i, if it makes any.
DrawsOf(draws, i) == IF i \in DOMAIN draws THEN draws[i] ELSE EmptyArr

\* One pass of the replicate loop of _jackknife or _bootstrap on the
\* design as the passes before left it: get_rep_weights, then _stat, which
\* reads w and the data only.  A pass that raises ends the estimation.
RepPass(s, c, bsn, draws) ==
    IF s.err # NoErr THEN s
    ELSE [design |-> DesignAfterRep(s.design, c, bsn, draws),
          err |-> GetRepWeights(s.design, c, bsn, draws).err]

RECURSIVE RepPasses(_, _, _, _)
RepPasses(d, bsn, draws, n) ==
    IF n = 0 THEN [design |-> d, err |-> NoErr]
    ELSE RepPass(RepPasses(d, bsn, draws, n - 1), n - 1, bsn, DrawsOf(draws, n - 1))

\* The design after Mean(design, ...) or Total(design, ...): past the
\* replicate loop the estimation writes to jdata, vcov and stderr only.
DesignAfterStat(d, replicates, bsn, draws) ==
    RepPasses(d, bsn, draws,
              IF d.cov_method = "jack" THEN JackK(d) ELSE replicates).design

\* self.quantile.min()
LevelMin(q) == CHOOSE x \in Range(q) : \A y \in Range(q) : ~FLess(y, x)

\* The range check of SurveyQuantile.__init__ (line 578): min() < 0 raises
\* the configuration error; otherwise "self.quantile.max > 1" compares the
\* bound method max, not its value, with 1, which Python 3 refuses.
QuantileCheck(q) ==
    IF FLess(LevelMin(q), F(0)) THEN ErrQuantile ELSE ErrMethodCompare

\* SurveyQuantile.__init__: the range check raises on every path, so the
\* estimation below it never runs.
QuantileInit(d, data, q) == StatFailure(QuantileCheck(q))

\* np.cumsum(weights)
Cumsum(w) == [i \in DOMAIN w |-> FSumTo(w, i + 1)]

\* A variant that leaves the column in the order given.
Unsorted(a) == a

\* np.sort of an integer array.
SortArr(a) ==
    [k \in DOMAIN a |->
        CHOOSE v \in Range(a) :
            /\ Cardinality({i \in DOMAIN a : a[i] < v}) <= k
            /\ k < Cardinality({i \in DOMAIN a : a[i] <= v})]

\* np.searchsorted(cw, key): numpy's binary search for the leftmost
\* insertion point, between lo and hi.
RECURSIVE BinSearch(_, _, _, _)
BinSearch(cw, key, lo, hi) ==
    IF lo >= hi THEN lo
    ELSE LET mid == lo + ((hi - lo) \div 2)
         IN  IF FLess(cw[mid], key) THEN BinSearch(cw, key, mid + 1, hi)
             ELSE BinSearch(cw, key, lo, mid)

SearchSorted(cw, key) == BinSearch(cw, key, 0, ALen(cw))

\* A variant without the tie rule.
QuantileAtNoTie(cw, sorted, key, pos, n_cw) ==
    IF pos \in {n_cw - 1, n_cw} THEN F(sorted[ALen(sorted) - 1])
    ELSE F(sorted[pos])

\* The value _stat appends for the level whose target is key and whose
\* search ended at pos.
QuantileAt(cw, sorted, key, pos, n_cw) ==
    IF pos \in {n_cw - 1, n_cw} THEN F(sorted[ALen(sorted) - 1])
    ELSE IF cw[pos] = key THEN FDiv(F(sorted[pos] + sorted[pos + 1]), F(2))
    ELSE F(sorted[pos])

\* SurveyQuantile._stat(weights, col_index), n_cw being
\* len(self.design.weights).
QuantileStat(weights, data, col_index, quantile, n_cw) ==
    LET cw == Cumsum(weights)
        sorted == SortArr([i \in DOMAIN data |-> data[i][col_index]])
        q == [i \in DOMAIN quantile |-> FMul(quantile[i], cw[ALen(cw) - 1])]
    IN  [i \in DOMAIN quantile |->
            QuantileAt(cw, sorted, q[i], SearchSorted(cw, q[i]), n_cw)]

\* ------------------------------------------------------------- state
VARIABLES
    args,     \* the arguments of the SurveyDesign constructor call
    design,   \* the SurveyDesign object (ok = FALSE: none was built)
    pc,       \* "new", then "built" or "failed"
    out       \* what the last call on the design returned

vars == <<args, design, pc, out>>

NoOut ==
    [op |-> "none", err |-> NoErr, w |-> EmptyArr, c |-> -1, bsn |-> 0,
     draws |-> EmptyArr, count |-> EmptyArr]

\* Arrays of length at most n over S, and optional ones.
ArraysOver(S, n) == UNION {[0..(k - 1) -> S] : k \in 0..n}

OptArrays(S, n) == {None} \cup {Some(a) : a \in ArraysOver(S, n)}

StrataLabels == {1, 2}

DesignClusterLabels == {1, 2, 3}

\* The scenario of the documentation: two strata of two clusters each,
\* strata = [0,0,1,1], cluster = [0,1,2,3], weights = [1,1,1,1], jackknife.
Scenario ==
    [strata |-> Some([i \in 0..3 |-> i \div 2]), cluster |-> Some([i \in 0..3 |-> i]),
     weights |-> Some(Ones(4)), rep_weights |-> None, fpc |-> None,
     cov_method |-> "jack", nest |-> TRUE]

ClusterLabels == {1, 2}

WeightValues == {2}

\* Weights of the weighted quantile function: 0 is a dropped cluster.
QuantileWeights == {0, 1, 2}

FpcValues == {<<1, 2>>}

\* A 2-column replicate weight matrix with n rows.
RepMatrix(n) == [i \in 0..(n - 1) |-> [r \in 0..1 |-> F(i + r)]]

ArgRecords(StrataS, ClusterS, WeightS, RepS, FpcS, MethodS) ==
    [strata : StrataS, cluster : ClusterS, weights : WeightS,
     rep_weights : RepS, fpc : FpcS, cov_method : MethodS, nest : BOOLEAN]

\* Constructor calls of every shape: any argument absent, arrays of
\* different lengths, empty arrays, an unknown method.
AnyArgs ==
    ArgRecords(OptArrays(StrataLabels, MaxN), OptArrays(ClusterLabels, MaxN),
               OptArrays(WeightValues, MaxN),
               {None, Some(RepMatrix(2))},
               OptArrays(FpcValues, MaxN),
               CovMethods \cup {"linearized"})

\* Weights 1, 2, .., n: every observation its own weight.
Ramp(n) == [i \in 0..(n - 1) |-> i + 1]

\* Constructor calls on arrays of one length n in 1..MaxObs, with any
\* labels, and calls that supply replicate weights instead.
AlignedArgs ==
    UNION {ArgRecords({None} \cup {Some(a) : a \in [0..(n - 1) -> StrataLabels]},
                      {None} \cup {Some(a) : a \in [0..(n - 1) -> DesignClusterLabels]},
                      {None, Some(Ramp(n))},
                      {None}, {None}, CovMethods) : n \in 1..MaxObs}
    \cup ArgRecords({None}, {None}, {None, Some(Ramp(2))}, {Some(RepMatrix(2))},
                    {None}, CovMethods)
    \cup {Scenario}

\* A finite population correction per observation: 1/2, 1/3, ..
StatFpc(n) == [i \in 0..(n - 1) |-> Norm(1, i + 2)]

\* Weights 1, 2, 1, 2, ..
Alternating(n) == [i \in 0..(n - 1) |-> 1 + (i % 2)]

\* Two strata of two clusters each, with weights 1, 2, 1, 2 and an fpc.
StatScenario ==
    [strata |-> Some([i \in 0..3 |-> i \div 2]), cluster |-> Some([i \in 0..3 |-> i]),
     weights |-> Some(Alternating(4)), rep_weights |-> None, fpc |-> Some(StatFpc(4)),
     cov_method |-> "jack", nest |-> TRUE]

\* Constructor calls on arrays of one length n in 1..MaxStatObs.
StatArgs ==
    UNION {ArgRecords({None} \cup {Some(a) : a \in [0..(n - 1) -> StrataLabels]},
                      {None} \cup {Some(a) : a \in [0..(n - 1) -> ClusterLabels]},
                      {Some(Ramp(n))},
                      {None}, {None}, CovMethods) : n \in 1..MaxStatObs}
    \cup ArgRecords({None}, {None}, {Some(Ramp(2))}, {Some(RepMatrix(2))},
                    {None}, CovMethods)

\* Constructor calls of jackknife designs with an fpc on arrays of one
\* length n in 1..MaxStatObs, and the documented scenario, without one.
JackArgs ==
    UNION {ArgRecords({None} \cup {Some(a) : a \in [0..(n - 1) -> StrataLabels]},
                      {None} \cup {Some(a) : a \in [0..(n - 1) -> ClusterLabels]},
                      {Some(Alternating(n))},
                      {None}, {Some(StatFpc(n))}, {"jack"}) : n \in 1..MaxStatObs}
    \cup {StatScenario, Scenario}

Start(A) ==
    /\ args \in A
    /\ design = BlankDesign("unbuilt")
    /\ pc = "new"
    /\ out = NoOut

\* design = SurveyDesign(strata, cluster, weights, rep_weights, fpc,
\*                       cov_method, nest)
Construct ==
    /\ pc = "new"
    /\ design' = SurveyDesignInit(args)
    /\ pc' = IF design'.ok THEN "built" ELSE "failed"
    /\ UNCHANGED <<args, out>>

\* ---- design.get_rep_weights(c, bsn), one action per branch it takes
RepOut(r, c, bsn, draws) ==
    [op |-> "get_rep_weights", err |-> r.err, w |-> r.w, c |-> c, bsn |-> bsn,
     draws |-> draws, count |-> IF "count" \in DOMAIN r THEN r.count ELSE EmptyArr]

\* The replicate numbers of a supplied matrix: its columns.
RepColumns(m) == IF DOMAIN m = {} THEN {} ELSE DOMAIN m[0]

CallSupplied ==
    /\ pc = "built"
    /\ design.rep_weights.given
    /\ \E c \in RepColumns(design.rep_weights.val) :
          out' = RepOut(GetRepWeights(design, c, 0, EmptyArr), c, 0, EmptyArr)
    /\ pc' = "called"
    /\ UNCHANGED <<args, design>>

CallJack ==
    /\ pc = "built"
    /\ ~design.rep_weights.given
    /\ design.cov_method = "jack"
    /\ \E c \in 0..(design.nclust - 1) :
          out' = RepOut(GetRepWeights(design, c, 0, EmptyArr), c, 0, EmptyArr)
    /\ pc' = "called"
    /\ UNCHANGED <<args, design>>

CallBoot ==
    /\ pc = "built"
    /\ ~design.rep_weights.given
    /\ design.cov_method = "boot"
    /\ \E draws \in BootDraws(design) :
          out' = RepOut(GetRepWeights(design, -1, 0, draws), -1, 0, draws)
    /\ pc' = "called"
    /\ UNCHANGED <<args, design>>

CallMeanBoot ==
    /\ pc = "built"
    /\ ~design.rep_weights.given
    /\ design.cov_method = "mean_boot"
    /\ \E bsn \in 1..MaxBsn :
          out' = RepOut(GetRepWeights(design, -1, bsn, EmptyArr), -1, bsn, EmptyArr)
    /\ pc' = "called"
    /\ UNCHANGED <<args, design>>

\* ---- Mean(design, data, ...), Total(design, data, ...) and
\* ---- Quantile(design, data, quantile, ...)
StatOut(kind, r, data, mse, replicates, bsn, draws, quantile) ==
    [op |-> kind, err |-> r.err, est |-> r.est, vcov |-> r.vcov,
     stderr |-> r.stderr, data |-> data, mse |-> mse, replicates |-> replicates,
     bsn |-> bsn, draws |-> draws, quantile |-> quantile]

\* n x 1 matrices over DataValues, and one n x 2 matrix.
DataValues == {1, 2}

DataMatrices(n) ==
    {[i \in 0..(n - 1) |-> [j \in 0..0 |-> col[i]]] : col \in [0..(n - 1) -> DataValues]}
    \cup {[i \in 0..(n - 1) |-> [j \in 0..1 |-> IF j = 0 THEN i + 1 ELSE 2 - (i % 2)]]}

\* What the constructor of a statistic is called with besides the data:
\* a jackknife takes no replicates; a bootstrap takes a positive number of
\* them, a bsn, and makes one set of draws per replicate.
Resampling(d) ==
    IF d.cov_method = "jack"
    THEN {[replicates |-> 0, bsn |-> 0, draws |-> EmptyArr]}
    ELSE UNION {[replicates : {r},
                 bsn : IF d.cov_method = "mean_boot" THEN 1..MaxBsn ELSE {0},
                 draws : [0..(r - 1) -> IF d.path = "strata" /\ d.cov_method = "boot"
                                        THEN BootDraws(d) ELSE {EmptyArr}]]
                : r \in 1..MaxReplicates}

MeanOrTotalInit(kind) ==
    /\ pc = "built"
    /\ \E data \in DataMatrices(ALen(design.weights)), mse \in BOOLEAN,
          rs \in Resampling(design) :
          out' = StatOut(kind,
                         StatInit(design, kind, data, mse, rs.replicates, rs.bsn,
                                  rs.draws),
                         data, mse, rs.replicates, rs.bsn, rs.draws, EmptyArr)
    /\ pc' = "called"
    /\ UNCHANGED <<args, design>>

MeanInit == MeanOrTotalInit("Mean")

TotalInit == MeanOrTotalInit("Total")

\* Arrays of quantile levels, inside [0, 1] and outside it.
LevelArrays ==
    {[i \in 0..0 |-> <<1, 2>>],
     [i \in 0..1 |-> <<i, 1>>],
     [i \in 0..2 |-> Norm(i + 1, 4)],
     [i \in 0..1 |-> <<2 * i - 1, 2>>],
     [i \in 0..1 |-> <<2 * i + 1, 2>>],
     [i \in 0..1 |-> <<4 * i - 1, 2>>]}

QuantileObjInit ==
    /\ pc = "built"
    /\ \E data \in DataMatrices(ALen(design.weights)), q \in LevelArrays :
          out' = StatOut("Quantile", QuantileInit(design, data, q), data, FALSE,
                         0, 0, EmptyArr, q)
    /\ pc' = "called"
    /\ UNCHANGED <<args, design>>

\* ---- any number of calls on one design
\* Constructor calls on arrays of one length n in 1..MaxLifeObs.
LifeArgs ==
    UNION {ArgRecords({Some(a) : a \in [0..(n - 1) -> StrataLabels]},
                      {Some(a) : a \in [0..(n - 1) -> ClusterLabels]},
                      {Some(Alternating(n))},
                      {None}, {None}, CovMethods) : n \in 1..MaxLifeObs}
    \cup ArgRecords({None}, {None}, {Some(Ramp(2))}, {Some(RepMatrix(2))},
                    {None}, CovMethods)

\* What get_rep_weights can be called with on the design d.
RepCallInputs(d) ==
    IF d.rep_weights.given
    THEN [c : RepColumns(d.rep_weights.val), bsn : {0}, draws : {EmptyArr}]
    ELSE IF d.cov_method = "jack"
    THEN [c : 0..(d.nclust - 1), bsn : {0}, draws : {EmptyArr}]
    ELSE IF d.cov_method = "boot"
    THEN [c : {-1}, bsn : {0}, draws : BootDraws(d)]
    ELSE [c : {-1}, bsn : 1..MaxBsn, draws : {EmptyArr}]

\* w = design.get_rep_weights(c, bsn), on a design that may have been
\* used before.
RepCall ==
    /\ pc = "built"
    /\ \E i \in RepCallInputs(design) :
          /\ out' = RepOut(GetRepWeights(design, i.c, i.bsn, i.draws), i.c, i.bsn,
                           i.draws)
          /\ design' = DesignAfterRep(design, i.c, i.bsn, i.draws)
    /\ UNCHANGED <<args, pc>>

\* The replicate counts of the estimations of a used design.
LifeReplicates == {1}

LifeResampling(d) ==
    IF d.cov_method = "jack"
    THEN {[replicates |-> 0, bsn |-> 0, draws |-> EmptyArr]}
    ELSE UNION {[replicates : {r},
                 bsn : IF d.cov_method = "mean_boot" THEN {1} ELSE {0},
                 draws : [0..(r - 1) -> IF d.path = "strata" /\ d.cov_method = "boot"
                                        THEN BootDraws(d) ELSE {EmptyArr}]]
                : r \in LifeReplicates}

\* The data of those estimations: the columns 1, 2, .. and 2, 1, 2, ..
LifeData(n) == [i \in 0..(n - 1) |-> [j \in 0..1 |-> IF j = 0 THEN i + 1 ELSE 2 - (i % 2)]]

\* Mean(design, data, ...) or Total(design, data, ...), on a design that
\* may have been used before.
Estimate ==
    /\ pc = "built"
    /\ \E kind \in {"Mean", "Total"}, mse \in BOOLEAN, rs \in LifeResampling(design) :
          /\ out' = StatOut(kind,
                            StatInit(design, kind, LifeData(ALen(design.weights)), mse,
                                     rs.replicates, rs.bsn, rs.draws),
                            LifeData(ALen(design.weights)), mse, rs.replicates,
                            rs.bsn, rs.draws, EmptyArr)
          /\ design' = DesignAfterStat(design, rs.replicates, rs.bsn, rs.draws)
    /\ UNCHANGED <<args, pc>>

\* ---- SurveyQuantile._stat as a function of its inputs
QuantileData == {1, 2, 3}

\* The example of the documentation: weights [1,1,1,1] on the column
\* [1,2,3,4].
QuantileExample ==
    [weights |-> Ones(4), data |-> [i \in 0..3 |-> [j \in 0..0 |-> i + 1]],
     quantile |-> [i \in 0..0 |-> <<1, 2>>]]

\* Levels 0, 1/2, 1, and levels 1/4, 1/2, 3/4, 1/3, 3/2.
QuantileLevels ==
    {[i \in 0..2 |-> Norm(i, 2)],
     [i \in 0..4 |-> IF i = 3 THEN <<1, 3>> ELSE IF i = 4 THEN <<3, 2>>
                     ELSE Norm(i + 1, 4)]}

QuantileInputs ==
    UNION {[weights : [0..(n - 1) -> QuantileWeights],
            data : {[i \in 0..(n - 1) |-> [j \in 0..0 |-> col[i]]] :
                       col \in [0..(n - 1) -> QuantileData]},
            quantile : QuantileLevels]
           : n \in 1..MaxQuantObs}
    \cup {QuantileExample}

EvalQuantile ==
    /\ pc = "new"
    /\ out' = [op |-> "quantile_stat", err |-> NoErr,
               val |-> QuantileStat(AsFloats(args.weights), args.data, 0,
                                    args.quantile, ALen(args.weights))]
    /\ pc' = "called"
    /\ UNCHANGED <<args, design>>

\* ---- the specifications
\* Constructor calls of every shape.
InitArgs == Start(AnyArgs)

NextArgs == Construct

SpecArgs == InitArgs /\ [][NextArgs]_vars

\* Designs over aligned arrays, and one get_rep_weights call on each.
Init == Start(AlignedArgs)

Next == Construct \/ CallSupplied \/ CallJack \/ CallBoot \/ CallMeanBoot

Spec == Init /\ [][Next]_vars

\* Designs over aligned arrays, and one statistic object built on each.
InitStat == Start(StatArgs)

NextStat == Construct \/ MeanInit \/ TotalInit \/ QuantileObjInit

SpecStat == InitStat /\ [][NextStat]_vars

\* Jackknife designs, and one Mean or Total object built on each.
InitJack == Start(JackArgs)

NextJack == Construct \/ MeanInit \/ TotalInit

SpecJack == InitJack /\ [][NextJack]_vars

\* Any sequence of get_rep_weights calls and estimations on one design.
InitLife == Start(LifeArgs)

NextLife == Construct \/ RepCall \/ Estimate

SpecLife == InitLife /\ [][NextLife]_vars

\* The weighted quantile function on every column and weight vector.
InitQuantile == Start(QuantileInputs)

NextQuantile == EvalQuantile

SpecQuantile == InitQuantile /\ [][NextQuantile]_vars

\* ------------------------------------------------------------ claims
Built == pc # "new" /\ design.ok

StrataDesign == Built /\ design.path = "strata"

\* The labels the constructor works on: the array given, else np.ones(n).
RawLabels(opt) == IF opt.given THEN opt.val ELSE Ones(ALen(design.strat))

\* Some cluster id has observations in two strata (possible with nest off).
SpanningCluster ==
    \E i, j \in DOMAIN design.sclust :
        design.sclust[i] = design.sclust[j] /\ design.strat[i] # design.strat[j]

\* C1: in every design built from strata / cluster / weights, nest on or
\* off, the cluster counts of the strata sum to nclust, and the index sets
\* ii[0..nstrat-1] are pairwise disjoint and together are exactly the
\* cluster ids 0..nclust-1 that sclust uses.
C1_StratumPartition ==
    StrataDesign =>
        /\ NpSum(design.clust_per_strat) = design.nclust
        /\ Range(design.sclust) = 0..(design.nclust - 1)
        /\ DOMAIN design.ii = 0..(design.nstrat - 1)
        /\ \A s, t \in DOMAIN design.ii :
              s # t => Range(design.ii[s]) \cap Range(design.ii[t]) = {}
        /\ UNION {Range(design.ii[s]) : s \in DOMAIN design.ii}
              = 0..(design.nclust - 1)

\* A design with nest off in which one cluster id spans two strata, and
\* that has three clusters.
C1_Witness ==
    StrataDesign /\ ~args.nest /\ SpanningCluster /\ design.nclust = 3

\* C10: with nest on, two observations share a relabelled cluster id
\* exactly when they share both the raw cluster label and the stratum
\* label; so each cluster lies in one stratum, the one strat_for_clust
\* names, and sclust takes exactly the values 0..nclust-1.
C10_NestSeparatesStrata ==
    (StrataDesign /\ args.nest) =>
        LET cl == RawLabels(args.cluster)
            st == RawLabels(args.strata)
        IN  /\ \A i, j \in DOMAIN design.sclust :
                  (design.sclust[i] = design.sclust[j])
                      <=> (cl[i] = cl[j] /\ st[i] = st[j])
            /\ \A i \in DOMAIN design.sclust :
                  design.strat_for_clust[design.sclust[i]] = design.strat[i]
            /\ Range(design.sclust) = 0..(design.nclust - 1)

\* A nested design in which two observations of different strata carry
\* the same raw cluster label, and so get different cluster ids.
C10_Witness ==
    /\ StrataDesign
    /\ args.nest
    /\ args.cluster.given
    /\ \E i, j \in DOMAIN design.sclust :
          /\ args.cluster.val[i] = args.cluster.val[j]
          /\ design.strat[i] # design.strat[j]
          /\ design.sclust[i] # design.sclust[j]

JackCall ==
    /\ out.op = "get_rep_weights"
    /\ design.path = "strata"
    /\ design.cov_method = "jack"

\* The stratum of the deleted cluster and its number of clusters.
JackStratum == design.strat_for_clust[out.c]

JackNh == design.clust_per_strat[JackStratum]

\* C2: the delete-1 jackknife weights of cluster c, whose stratum s has
\* nh >= 2 clusters: 0 for an observation of cluster c, weights[i] * nh /
\* (nh - 1) for one of stratum s outside c, weights[i] for one outside s;
\* and the documented scenario gives [0, 2, 1, 1] for cluster 0.
C2_JackknifeWeights ==
    /\ (JackCall /\ JackNh >= 2) =>
          /\ out.err = NoErr
          /\ DOMAIN out.w = DOMAIN design.weights
          /\ \A i \in DOMAIN design.weights :
                out.w[i] = IF design.sclust[i] = out.c THEN F(0)
                           ELSE IF design.strat[i] = JackStratum
                           THEN FMul(design.weights[i], Norm(JackNh, JackNh - 1))
                           ELSE design.weights[i]
    /\ (JackCall /\ args = Scenario /\ out.c = 0) =>
          out.w = [i \in 0..3 |-> F(IF i = 0 THEN 0 ELSE IF i = 1 THEN 2 ELSE 1)]

\* A jackknife call on a cluster of a stratum of three clusters, with an
\* observation in each of the three cases.
C2_Witness ==
    /\ JackCall
    /\ JackNh = 3
    /\ \E i, j, k \in DOMAIN design.weights :
          /\ design.sclust[i] = out.c
          /\ design.strat[j] = JackStratum /\ design.sclust[j] # out.c
          /\ design.strat[k] # JackStratum
          /\ out.w[j] = FMul(design.weights[j], <<3, 2>>)

BootCall ==
    /\ out.op = "get_rep_weights"
    /\ design.path = "strata"
    /\ design.cov_method = "boot"

\* How often the draws of one bootstrap hit the clusters of stratum s.
RECURSIVE CountSum(_, _, _)
CountSum(count, idx, n) ==
    IF n = 0 THEN 0 ELSE count[idx[n - 1]] + CountSum(count, idx, n - 1)

DrawnIn(s) == CountSum(out.count, design.ii[s], ALen(design.ii[s]))

C7_NoCallFails ==
    (out.op = "get_rep_weights" /\ ~(design.path = "strata" /\ SpanningCluster)) =>
        /\ out.err = NoErr
        /\ DOMAIN out.w = DOMAIN design.weights

\* The errors the constructor raises on purpose.
ConfigErrors == {ErrMethod, ErrRepWeights, ErrAllNone, ErrLengths}

BadMethod == args.cov_method \notin CovMethods

RepWithLabels == args.rep_weights.given /\ (args.strata.given \/ args.cluster.given)

AllAbsent == ~args.strata.given /\ ~args.cluster.given /\ ~args.weights.given

LengthsDiffer ==
    \E x, y \in {args.strata, args.cluster, args.weights} :
        x.given /\ y.given /\ ALen(x.val) # ALen(y.val)

\* Well-formed arrays: those given among strata / cluster / weights are not
\* empty, and fpc, when given, is as long as they are.
WellFormed ==
    \A x \in {args.strata, args.cluster, args.weights} :
        x.given => /\ ALen(x.val) >= 1
                   /\ args.fpc.given => ALen(args.fpc.val) = ALen(x.val)

Rejected == ~design.ok /\ design.err \in ConfigErrors

\* C3 as claimed: construction fails with a configuration error when (a)
\* the method is unknown, (b) rep_weights comes with strata or cluster,
\* (c) strata, cluster and weights are all absent, (d) the given arrays
\* differ in length; and succeeds in every other case with well-formed
\* arrays.
C3_AsClaimed ==
    pc # "new" =>
        /\ (BadMethod \/ RepWithLabels \/ AllAbsent \/ LengthsDiffer) => Rejected
        /\ (~(BadMethod \/ RepWithLabels \/ AllAbsent \/ LengthsDiffer) /\ WellFormed)
              => design.ok

\* C3, amended: as claimed, except that (c) is a failure only when
\* rep_weights is absent too: replicate weights alone make a design.
C3_Validation ==
    pc # "new" =>
        /\ (BadMethod \/ RepWithLabels \/ (AllAbsent /\ ~args.rep_weights.given)
              \/ LengthsDiffer) => Rejected
        /\ (~(BadMethod \/ RepWithLabels \/ (AllAbsent /\ ~args.rep_weights.given)
                \/ LengthsDiffer) /\ WellFormed) => design.ok

\* A design built from replicate weights alone.
C3_Witness ==
    /\ pc = "built"
    /\ design.path = "rep"
    /\ AllAbsent
    /\ design.weights = AsFloats(Ones(2))

\* A design the documentation calls valid: built from strata / cluster /
\* weights, every stratum with at least two clusters.
ValidDesign ==
    /\ StrataDesign
    /\ DOMAIN design.clust_per_strat = 0..(design.nstrat - 1)
    /\ \A s \in DOMAIN design.clust_per_strat : design.clust_per_strat[s] >= 2

LevelsInUnit(q) == \A i \in DOMAIN q : ~FLess(q[i], F(0)) /\ ~FLess(F(1), q[i])

StatCall == out.op \in {"Mean", "Total", "Quantile"}

\* C4, as claimed: on a valid design, constructing a Mean, a Total or a
\* Quantile object (its levels all in [0, 1]) completes without error and
\* leaves est, vcov and stderr on the object, one entry per data column.
C4_EagerEstimation ==
    (StatCall /\ ValidDesign /\ (out.op = "Quantile" => LevelsInUnit(out.quantile)))
        => /\ out.err = NoErr
           /\ DOMAIN out.est = Cols(out.data)
           /\ DOMAIN out.vcov = Cols(out.data)
           /\ DOMAIN out.stderr = Cols(out.data)

\* C5, as claimed: constructing a Quantile object with a level below 0 or
\* above 1 fails with the configuration error, and with levels all in
\* [0, 1] the range check raises nothing.
C5_LevelCheck ==
    out.op = "Quantile" =>
        IF LevelsInUnit(out.quantile)
        THEN out.err \notin {ErrQuantile, ErrMethodCompare}
        ELSE out.err = ErrQuantile

QuantileCall == out.op = "quantile_stat"

\* The column the quantile function was called on.
Column == [i \in DOMAIN args.data |-> args.data[i][0]]

PositiveWeights == \A i \in DOMAIN args.weights : args.weights[i] > 0

\* C8: for strictly positive weights, whatever the order of the column,
\* the weighted quantile function returns the minimum of the column at
\* level 0 and its maximum at level 1.
C8_Extremes ==
    (QuantileCall /\ PositiveWeights) =>
        \A k \in DOMAIN args.quantile :
            /\ args.quantile[k] = F(0) => out.val[k] = F(SetMin(Range(Column)))
            /\ args.quantile[k] = F(1) => out.val[k] = F(SetMax(Range(Column)))

\* A call with levels 0 and 1 on a column of three different values that
\* is not in ascending order, under positive weights that differ.
C8_Witness ==
    /\ QuantileCall
    /\ PositiveWeights
    /\ F(0) \in Range(args.quantile) /\ F(1) \in Range(args.quantile)
    /\ ALen(Column) >= 3
    /\ Column[0] > Column[1] /\ Column[1] # Column[2] /\ Column[0] # Column[2]
    /\ args.weights[0] # args.weights[1]
    /\ out.val[0] = F(SetMin(Range(Column)))

\* The partial sums of the weights.
RECURSIVE WeightSum(_)
WeightSum(n) == IF n = 0 THEN 0 ELSE WeightSum(n - 1) + args.weights[n - 1]

\* q * cw[last] for the level q.
Target(q) == Norm(q[1] * WeightSum(ALen(args.weights)), q[2])

\* The smallest position whose cumulative weight reaches the target, the
\* length of cw when none does.
Pos(q) ==
    SetMin({p \in DOMAIN args.weights : ~FLess(F(WeightSum(p + 1)), Target(q))}
           \cup {ALen(args.weights)})

\* The k-th smallest entry of the column, counted with repetitions.
Ranked(k) ==
    CHOOSE v \in Range(Column) :
        /\ Cardinality({i \in DOMAIN Column : Column[i] < v}) <= k
        /\ Cardinality({i \in DOMAIN Column : Column[i] <= v}) > k

\* C9: for each level q, with pos the smallest position whose cumulative
\* weight is at least q * cw[last]: the result is the maximum of the
\* column when pos is the last or the one-past-last position; else the
\* average of the sorted values at pos and pos + 1 when the cumulative
\* weight at pos equals the target; else the sorted value at pos.  And
\* weights [1,1,1,1] on the sorted column [1,2,3,4] give 2.5 at q = 0.5.
C9_EdgeAndTie ==
    /\ QuantileCall =>
          \A k \in DOMAIN args.quantile :
              LET q == args.quantile[k]
                  pos == Pos(q)
                  n == ALen(args.weights)
              IN  out.val[k] =
                      IF pos \in {n - 1, n} THEN F(SetMax(Range(Column)))
                      ELSE IF F(WeightSum(pos + 1)) = Target(q)
                      THEN Norm(Ranked(pos) + Ranked(pos + 1), 2)
                      ELSE F(Ranked(pos))
    /\ (QuantileCall /\ args = QuantileExample) => out.val[0] = <<5, 2>>

\* A call in which one level ends in a tie strictly inside the column and
\* is answered by the average of two different values, another level is
\* answered by the sorted value at its position, and a third runs past
\* the last position.
C9_Witness ==
    /\ QuantileCall
    /\ \E k, l, m \in DOMAIN args.quantile :
          /\ Pos(args.quantile[k]) < ALen(args.weights) - 1
          /\ F(WeightSum(Pos(args.quantile[k]) + 1)) = Target(args.quantile[k])
          /\ Ranked(Pos(args.quantile[k])) # Ranked(Pos(args.quantile[k]) + 1)
          /\ out.val[k] = Norm(Ranked(Pos(args.quantile[k]))
                               + Ranked(Pos(args.quantile[k]) + 1), 2)
          /\ Pos(args.quantile[l]) < ALen(args.weights) - 1
          /\ F(WeightSum(Pos(args.quantile[l]) + 1)) # Target(args.quantile[l])
          /\ out.val[l] = F(Ranked(Pos(args.quantile[l])))
          /\ Pos(args.quantile[m]) = ALen(args.weights)

\* A jackknife estimation that completed on a strata / cluster design.
JackEstimate ==
    /\ out.op \in {"Mean", "Total"}
    /\ design.path = "strata"
    /\ design.cov_method = "jack"
    /\ out.err = NoErr

\* theta_c: the statistic under the delete-1 weights of cluster c.
Theta(c) == Stat(out.op, JackknifeRepWeights(design, c).w, out.data)

\* theta as a table over the clusters.
Thetas == [c \in 0..(design.nclust - 1) |-> Theta(c)]

SameStratum(c, b) == design.strat_for_clust[c] = design.strat_for_clust[b]

\* The sum of th[.][j] over the clusters below n of the stratum of c.
RECURSIVE ThetaSum(_, _, _, _)
ThetaSum(th, c, j, n) ==
    IF n = 0 THEN F(0)
    ELSE IF SameStratum(c, n - 1) THEN FAdd(ThetaSum(th, c, j, n - 1), th[n - 1][j])
    ELSE ThetaSum(th, c, j, n - 1)

\* nh_c: the number of clusters of the stratum of c.
ClustersWith(c) == Cardinality({b \in 0..(design.nclust - 1) : SameStratum(c, b)})

\* d_c: theta_c less the mean of theta over the stratum of c, or less the
\* point estimate in mse mode; as a table over the clusters and columns.
Deviations(th) ==
    [c \in DOMAIN th |-> [j \in Cols(out.data) |->
        FSub(th[c][j],
             IF out.mse THEN out.est[j]
             ELSE FDiv(ThetaSum(th, c, j, design.nclust), F(ClustersWith(c))))]]

\* (1 - fpc_c) * ((nh_c - 1) / nh_c) * d_c[j] * d_c[k]
Contribution(dev, c, j, k) ==
    FMul(FMul(FSub(F(1), design.fpc[c]), Norm(ClustersWith(c) - 1, ClustersWith(c))),
         FMul(dev[c][j], dev[c][k]))

RECURSIVE ContributionSum(_, _, _, _)
ContributionSum(dev, j, k, n) ==
    IF n = 0 THEN F(0)
    ELSE FAdd(ContributionSum(dev, j, k, n - 1), Contribution(dev, n - 1, j, k))

\* The covariance matrix the deviations dev give.
CovarianceOf(dev) ==
    [j \in Cols(out.data) |-> [k \in Cols(out.data) |->
        ContributionSum(dev, j, k, design.nclust)]]

\* C11: in a jackknife on a strata / cluster design, vcov[j][k] is the sum
\* over the clusters c in 0..nclust-1, each once, of (1 - fpc_c) *
\* ((nh_c - 1) / nh_c) * d_c[j] * d_c[k], d_c being theta_c less the mean
\* of theta over the clusters of c's own stratum, or less the point
\* estimate in mse mode.
C11_JackknifeCovariance ==
    JackEstimate => out.vcov = CovarianceOf(Deviations(Thetas))

\* The mean of theta[j] over all the clusters.
GlobalMean(j) ==
    FDiv(FSum([c \in 0..(design.nclust - 1) |-> Theta(c)[j]]), F(design.nclust))

\* A jackknife, not in mse mode, of two strata of two clusters each with
\* an fpc, in which the mean of a stratum is not the mean of all the
\* clusters, and whose variance is finite and not zero.
C11_Witness ==
    /\ JackEstimate
    /\ ~out.mse
    /\ design.nstrat = 2
    /\ \A s \in 0..1 : design.clust_per_strat[s] = 2
    /\ \E c \in 0..(design.nclust - 1) : design.fpc[c] # F(0)
    /\ FDiv(ThetaSum(Thetas, 0, 0, design.nclust), F(2)) # GlobalMean(0)
    /\ IsFinite(out.vcov[0][0])
    /\ out.vcov[0][0] # F(0)

\* The fields of a design that the claim names.
DesignFields(d) ==
    <<d.weights, d.strat, d.sclust, d.clust_per_strat, d.strat_for_clust, d.fpc,
      d.nclust, d.ii, d.rep_weights>>

\* C12: after any sequence of get_rep_weights calls and Mean / Total
\* estimations on a design, its weights, strat, sclust, clust_per_strat,
\* strat_for_clust, fpc, nclust, ii and rep_weights are what the
\* constructor left.
C12_DesignUnchanged ==
    pc = "built" => DesignFields(design) = DesignFields(SurveyDesignInit(args))

\* A used design, unchanged, whose last call built replicate weights in
\* which one weight is 0 and another is rescaled.
C12_Witness ==
    /\ pc = "built"
    /\ out.op = "get_rep_weights"
    /\ out.err = NoErr
    /\ ~design.rep_weights.given
    /\ \E i, j \in DOMAIN out.w :
          /\ out.w[i] = F(0) /\ design.weights[i] # F(0)
          /\ out.w[j] # F(0) /\ out.w[j] # design.weights[j]
    /\ design.weights = AsFloats(args.weights.val)

====
